---- MODULE Spec2Model ----
(***************************************************************************)
(* GitLab -> GitHub migration tool (rohithmamidi/gitlabtogithub).          *)
(*                                                                         *)
(* The module models                                                       *)
(*   - migrate_metadata of metadata.py (and its variant in                 *)
(*     scripts/repo/gitlab_to_github_metadata.py): the four groups labels, *)
(*     milestones, issues, merge requests, one action per listing and one  *)
(*     per loop iteration;                                                 *)
(*   - main and migrate_code of repomigration.py: the loop over the        *)
(*     mappings, the destination repository resolver, the git steps and    *)
(*     the ledger;                                                         *)
(*   - the resolver of main in metadata.py, and main of the script         *)
(*     variant around its migrate_metadata;                                *)
(*   - write_migration_summary step by step, called by two invocations of  *)
(*     the tool on one ledger path;                                        *)
(*   - the refs of the source, the mirror clone and the destination, with  *)
(*     git's rules for push --all, --tags and --mirror, over every source  *)
(*     and destination ref set for one resolved mapping;                   *)
(*   - migrate_metadata run before and again after the code transfer has   *)
(*     pushed the branches its merge requests need.                        *)
(* Every call to GitLab, GitHub or git may fail; a failure is an input     *)
(* chosen with \E, at most MaxFailures of them in one behaviour.           *)
(***************************************************************************)
EXTENDS Integers, Sequences, FiniteSets, TLC

\* ---------------------------------------------------------------- bounds
MaxSrc == 2
MaxFailures == 1
MaxColorLen == 3
MaxMappings == 3
MaxFaults == 2
MaxAppends == 3

\* ------------------------------------------------------------ vocabulary
None == "<None>"
Names == {"a", "b"}
ColorChars == {"#", "1", "F"}
Descriptions == {None, "", "d"}

VARIABLES
    variant,      \* which migrate_metadata runs: "metadata" or "script"
    gl_project,   \* source project: labels, milestones, issues, mergerequests
    gh_repo,      \* destination repository: labels, milestones, issues, pulls
    gh_branches,  \* branch names that exist in the destination repository
    pc,           \* group migrate_metadata is in, "return" or "raised"
    i,            \* 0: the group has not listed yet; else index in the source list
    existing,     \* names/titles listed from the destination for this group
    summary,      \* summary dict of migrate_metadata
    run,          \* "first" or "second" call of migrate_metadata
    calls,        \* create calls issued to gh_repo during the current call
    failures,     \* failures injected so far
    clean         \* no call failed in any earlier migrate_metadata call

mvars == <<variant, gl_project, gh_repo, gh_branches, pc, i, existing,
           summary, run, calls, failures, clean>>

VARIABLES
    mappings,     \* lines of the mapping file, each a sequence of tokens
    force,        \* args.force
    m,            \* index of the mapping the for loop of main is at
    opc,          \* statement main is at
    target,       \* gitlab_project_path and github_target of the current mapping
    gh_repos,     \* full names of the repositories that exist on GitHub
    handle,       \* gh_repo of main: full name of the resolved repository
    attempts,     \* GitHub calls of the resolver for the current mapping
    tmp_dir,      \* the temporary directory of migrate_code exists
    git_calls,    \* git commands run by the current migrate_code call
    raised,       \* an exception is passing through the finally of migrate_code
    summary_file, \* lines of the ledger file, <<>> while it does not exist
    src_failed,   \* indices of the mappings whose gl.projects.get raised
    faults        \* failures injected so far

ovars == <<mappings, force, m, opc, target, gh_repos, handle, attempts, tmp_dir,
           git_calls, raised, summary_file, src_failed, faults>>

VARIABLES
    ledger,       \* the file at the ledger path: exists, and its lines
    wpc,          \* statement of write_migration_summary each invocation is at
    wargs,        \* gitlab_repo, github_repo, status of the call in progress
    file_exists,  \* file_exists of the call in progress
    csvfile,      \* lines written to csvfile and not yet flushed to the file
    wcalls,       \* rows passed to write_migration_summary, in call order
    overlap       \* a call was entered while another one was in progress

lvars == <<ledger, wpc, wargs, file_exists, csvfile, wcalls, overlap>>

VARIABLES
    gl_refs,      \* refs of the source repository: ref name -> commit
    local_refs,   \* refs of the mirror clone in tmp_dir
    gh_refs,      \* refs of each GitHub repository: full name -> (ref name -> commit)
    refs_before   \* refs the destination had when migrate_code was entered

rvars == <<gl_refs, local_refs, gh_refs, refs_before>>

vars == <<mvars, ovars, lvars, rvars>>

\* tool invocations that write to the same ledger path
Invocations == {1, 2}

\* no invocation is in write_migration_summary and the path does not exist
IdleLedger ==
    /\ ledger = [exists |-> FALSE, lines |-> <<>>]
    /\ wpc = [p \in Invocations |-> "idle"]
    /\ wargs = [p \in Invocations |-> <<>>]
    /\ file_exists = [p \in Invocations |-> FALSE]
    /\ csvfile = [p \in Invocations |-> <<>>]
    /\ wcalls = <<>>
    /\ overlap = FALSE

\* --------------------------------------------------------------- git refs

Branches == {"refs/heads/main", "refs/heads/dev"}
Tags == {"refs/tags/v1"}
RefNames == Branches \cup Tags
\* commit 2 has commit 1 as its ancestor
Commits == {1, 2}
EmptyRefs == [n \in {} |-> 1]
RepoNames == {<<o, "/", r>> : o \in {"o", "me"}, r \in {"r1", "r2"}}

\* no transfer has run: the repositories of the model hold no refs
IdleRefs ==
    /\ gl_refs = EmptyRefs
    /\ local_refs = EmptyRefs
    /\ gh_refs = [n \in RepoNames |-> EmptyRefs]
    /\ refs_before = EmptyRefs

\* a push without --force: git updates a branch only by fast-forward and
\* never moves a tag that exists; a ref the remote does not have is created
FastForward(old, new) == old <= new
Accepted(remote, n, v) ==
    \/ n \notin DOMAIN remote
    \/ IF n \in Branches THEN FastForward(remote[n], v) ELSE remote[n] = v
Pushed(local, names) == DOMAIN local \cap names
Rejects(local, remote, names) ==
    {n \in Pushed(local, names) : ~Accepted(remote, n, local[n])}

\* git push github --all / --tags: the accepted refs are written, nothing is deleted
NoPush(local, remote, names) == remote
PushRefs(local, remote, names) ==
    [n \in DOMAIN remote \cup Pushed(local, names) |->
        IF n \in Pushed(local, names) /\ Accepted(remote, n, local[n])
        THEN local[n] ELSE remote[n]]

\* git push --mirror github: every ref is forced to the local value and the
\* refs the local repository does not have are deleted
AdditivePush(local, remote) ==
    [n \in DOMAIN remote \cup DOMAIN local |->
        IF n \in DOMAIN local THEN local[n] ELSE remote[n]]
MirrorPush(local, remote) == local

\* ------------------------------------------------------- pure functions

\* str.replace("#", ""): every occurrence is removed
RECURSIVE ReplaceHash(_)
LstripHash(s) ==
    IF s # <<>> /\ Head(s) = "#" THEN Tail(s) ELSE s
ReplaceHash(s) ==
    IF s = <<>> THEN <<>>
    ELSE IF Head(s) = "#" THEN ReplaceHash(Tail(s))
         ELSE <<Head(s)>> \o ReplaceHash(Tail(s))

\* x or ""
OrEmpty(x) == IF x = None \/ x = "" THEN "" ELSE x

\* "open" if ms.state == "active" else "closed"
MilestoneState(state) == IF state = "active" THEN "open" ELSE "closed"

\* if issue.state == "closed": gh_issue.edit(state="closed")
IssueNeedsClose(state) == state = "closed"

\* if mr.state in ["closed", "merged"]: pr.edit(state="closed")
PullClosedOnly(state) == state = "closed"
PullNeedsClose(state) == state \in {"closed", "merged"}

\* [x.name for x in ...]
NamesOf(seq) == [k \in 1..Len(seq) |-> seq[k].name]
IsOpen(e) == e.state = "open"
TitlesOfOpen(seq) ==
    [k \in 1..Len(SelectSeq(seq, IsOpen)) |-> SelectSeq(seq, IsOpen)[k].title]
TitlesOf(seq) == [k \in 1..Len(seq) |-> seq[k].title]

\* name in existing
NeverInList(x, lst) == FALSE
InList(x, lst) == \E k \in 1..Len(lst) : lst[k] = x

\* ------------------------------------------------ source and destination

\* what GitLab can list for a project (spec section 3 gives the state sets)
SrcLabel == [name : Names, color : {<<"#", "F">>, <<"1">>}, description : {None}]
SrcMilestone == [title : Names, state : {"active", "closed"}, description : {None}]
SrcIssue == [title : Names, state : {"opened", "closed"}, description : {None}]
SrcMergeRequest ==
    [title : Names, state : {"opened", "closed", "merged"}, description : {None},
     source_branch : {"feat"}, target_branch : {"main"}, iid : {1}]

\* GitLab keeps label names and milestone titles unique within a project;
\* issues and merge requests may share a title
NameOf(e) == e.name
TitleOf(e) == e.title
UniqueNames(S, k) ==
    {f \in [1..k -> S] : \A x, y \in 1..k : x # y => NameOf(f[x]) # NameOf(f[y])}
UniqueTitles(S, k) ==
    {f \in [1..k -> S] : \A x, y \in 1..k : x # y => TitleOf(f[x]) # TitleOf(f[y])}

\* source projects with at most n entities in all
Projects(n) ==
    UNION {[labels : UniqueNames(SrcLabel, t[1]),
            milestones : UniqueTitles(SrcMilestone, t[2]),
            issues : [1..t[3] -> SrcIssue],
            mergerequests : [1..t[4] -> SrcMergeRequest]] :
           t \in {u \in [1..4 -> 0..n] : u[1] + u[2] + u[3] + u[4] <= n}}

\* an entity that was in the destination before the tool ran has by = "other"
OldLabel == [name |-> "a", color |-> <<"0">>, description |-> "old", by |-> "other"]
OldMilestone(st) == [title |-> "a", state |-> st, description |-> "old", by |-> "other"]
OldIssue(st) ==
    [title |-> "a", body |-> "old", labels |-> <<>>, state |-> st, by |-> "other",
     from |-> 0, edit |-> "none"]
OldPull(st) ==
    [title |-> "a", body |-> <<"old">>, head |-> "x", base |-> "main", state |-> st,
     by |-> "other", from |-> 0, edit |-> "none"]

EmptyRepo == [labels |-> <<>>, milestones |-> <<>>, issues |-> <<>>, pulls |-> <<>>]
OldRepo(st) ==
    [labels |-> <<OldLabel>>, milestones |-> <<OldMilestone(st)>>,
     issues |-> <<OldIssue(st)>>, pulls |-> <<OldPull(st)>>]
Repos == {EmptyRepo, OldRepo("open"), OldRepo("closed")}

NoSummary == [labels |-> "", milestones |-> "", issues |-> "", merge_requests |-> ""]

\* ------------------------------------------------------ migrate_metadata

MayFail == failures < MaxFailures

\* except Exception as e: summary[kind] = f"failed: {e}"   (metadata.py)
\* no handler: the exception leaves migrate_metadata        (script variant)
GroupExcept(kind, next) ==
    /\ failures' = failures + 1
    /\ IF variant = "metadata"
       THEN /\ summary' = [summary EXCEPT ![kind] = "failed"]
            /\ pc' = next
       ELSE /\ summary' = summary
            /\ pc' = "raised"
    /\ i' = 0
    /\ existing' = <<>>

\* the for loop goes on, or ends and the group is completed
LoopBreak(kind, next, list) ==
    /\ summary' = (IF variant = "metadata"
                   THEN [summary EXCEPT ![kind] = "completed"] ELSE summary)
    /\ pc' = next
    /\ i' = 0
    /\ existing' = <<>>
LoopNext(kind, next, list) ==
    IF i + 1 > Len(list)
    THEN /\ summary' = (IF variant = "metadata"
                        THEN [summary EXCEPT ![kind] = "completed"] ELSE summary)
         /\ pc' = next
         /\ i' = 0
         /\ existing' = <<>>
    ELSE /\ i' = i + 1
         /\ UNCHANGED <<summary, pc, existing>>

Call(op, kind, key, ok, args) ==
    [op |-> op, kind |-> kind, key |-> key, ok |-> ok, args |-> args]

\* existing = [...] and the source listing: either call may raise
Listing(kind, next, keys, list) ==
    /\ pc = kind
    /\ i = 0
    /\ \/ /\ existing' = keys
          /\ calls' = Append(calls, Call("list", kind, "", TRUE, <<>>))
          /\ IF list = <<>>
             THEN /\ summary' = (IF variant = "metadata"
                                 THEN [summary EXCEPT ![kind] = "completed"]
                                 ELSE summary)
                  /\ pc' = next
                  /\ i' = 0
             ELSE /\ i' = 1
                  /\ UNCHANGED <<summary, pc>>
          /\ UNCHANGED failures
       \/ /\ MayFail
          /\ calls' = Append(calls, Call("list", kind, "", FALSE, <<>>))
          /\ GroupExcept(kind, next)
    /\ UNCHANGED <<variant, gl_project, gh_repo, gh_branches, run, clean>>
    /\ UNCHANGED <<ovars, lvars, rvars>>

ListLabels ==
    /\ pc = "labels"
    /\ Listing("labels", "milestones", NamesOf(gh_repo.labels), gl_project.labels)

\* one iteration of: for label in gl_project.labels.list(get_all=True)
LabelStep ==
    /\ pc = "labels"
    /\ i >= 1
    /\ LET label == gl_project.labels[i]
           args == [name |-> label.name,
                    color |-> ReplaceHash(label.color),
                    description |-> OrEmpty(label.description)]
       IN IF InList(label.name, existing)
          THEN /\ LoopNext("labels", "milestones", gl_project.labels)
               /\ UNCHANGED <<gh_repo, calls, failures>>
          ELSE \/ /\ gh_repo' = [gh_repo EXCEPT !.labels =
                                    Append(@, args @@ [by |-> run])]
                  /\ calls' = Append(calls, Call("create", "labels", label.name, TRUE, args))
                  /\ LoopNext("labels", "milestones", gl_project.labels)
                  /\ UNCHANGED failures
               \/ /\ MayFail
                  /\ calls' = Append(calls, Call("create", "labels", label.name, FALSE, args))
                  /\ GroupExcept("labels", "milestones")
                  /\ UNCHANGED gh_repo
    /\ UNCHANGED <<variant, gl_project, gh_branches, run, clean>>
    /\ UNCHANGED <<ovars, lvars, rvars>>

ListMilestones ==
    /\ pc = "milestones"
    /\ Listing("milestones", "issues", TitlesOf(gh_repo.milestones), gl_project.milestones)

\* one iteration of: for ms in gl_project.milestones.list(get_all=True)
MilestoneStep ==
    /\ pc = "milestones"
    /\ i >= 1
    /\ LET ms == gl_project.milestones[i]
           args == [title |-> ms.title,
                    description |-> OrEmpty(ms.description),
                    state |-> MilestoneState(ms.state)]
       IN IF InList(ms.title, existing)
          THEN /\ LoopNext("milestones", "issues", gl_project.milestones)
               /\ UNCHANGED <<gh_repo, calls, failures>>
          ELSE \/ /\ gh_repo' = [gh_repo EXCEPT !.milestones =
                                    Append(@, args @@ [by |-> run, from |-> i])]
                  /\ calls' = Append(calls, Call("create", "milestones", ms.title, TRUE, args))
                  /\ LoopNext("milestones", "issues", gl_project.milestones)
                  /\ UNCHANGED failures
               \/ /\ MayFail
                  /\ calls' = Append(calls, Call("create", "milestones", ms.title, FALSE, args))
                  /\ GroupExcept("milestones", "issues")
                  /\ UNCHANGED gh_repo
    /\ UNCHANGED <<variant, gl_project, gh_branches, run, clean>>
    /\ UNCHANGED <<ovars, lvars, rvars>>

\* gh_issue = gh_repo.create_issue(...) / pr = gh_repo.create_pull(...): the
\* object the closing edit is called on is the one the create call returned
FirstEntity(list) == 1
EditTarget(list) == Len(list)

\* gh_issue.edit(state="closed") / pr.edit(state="closed") on entity k of the
\* list: a call that raises changes nothing in the destination
Edited(list, k, ok) ==
    [list EXCEPT ![k] = [@ EXCEPT !.state = IF ok THEN "closed" ELSE @,
                                  !.edit = IF ok THEN "done" ELSE "failed"]]

ListIssues ==
    /\ pc = "issues"
    /\ Listing("issues", "merge_requests", TitlesOf(gh_repo.issues), gl_project.issues)

\* one iteration of: for issue in gl_project.issues.list(get_all=True)
\* create_issue makes the issue open; a closed source issue gets a second call,
\* gh_issue.edit(state="closed"), and either call may raise into the group's handler
IssueStep ==
    /\ pc = "issues"
    /\ i >= 1
    /\ LET issue == gl_project.issues[i]
           args == [title |-> issue.title,
                    body |-> OrEmpty(issue.description),
                    labels |-> <<>>]
           made(st, ed) == args @@ [state |-> st, by |-> run, from |-> i, edit |-> ed]
           created == Append(gh_repo.issues, made("open", "none"))
           create(ok) == Call("create", "issues", issue.title, ok, args)
           edit(ok) == Call("edit", "issues", issue.title, ok,
                            [state |-> "closed", target |-> EditTarget(created)])
       IN IF InList(issue.title, existing)
          THEN /\ LoopNext("issues", "merge_requests", gl_project.issues)
               /\ UNCHANGED <<gh_repo, calls, failures>>
          ELSE \/ /\ ~IssueNeedsClose(issue.state)
                  /\ gh_repo' = [gh_repo EXCEPT !.issues = created]
                  /\ calls' = Append(calls, create(TRUE))
                  /\ LoopNext("issues", "merge_requests", gl_project.issues)
                  /\ UNCHANGED failures
               \/ /\ IssueNeedsClose(issue.state)
                  /\ gh_repo' = [gh_repo EXCEPT !.issues =
                                      Edited(created, EditTarget(created), TRUE)]
                  /\ calls' = calls \o <<create(TRUE), edit(TRUE)>>
                  /\ LoopNext("issues", "merge_requests", gl_project.issues)
                  /\ UNCHANGED failures
               \/ /\ IssueNeedsClose(issue.state)
                  /\ MayFail
                  /\ gh_repo' = [gh_repo EXCEPT !.issues =
                                      Edited(created, EditTarget(created), FALSE)]
                  /\ calls' = calls \o <<create(TRUE), edit(FALSE)>>
                  /\ GroupExcept("issues", "merge_requests")
               \/ /\ MayFail
                  /\ calls' = Append(calls, create(FALSE))
                  /\ GroupExcept("issues", "merge_requests")
                  /\ UNCHANGED gh_repo
    /\ UNCHANGED <<variant, gl_project, gh_branches, run, clean>>
    /\ UNCHANGED <<ovars, lvars, rvars>>

ListPulls ==
    /\ pc = "merge_requests"
    /\ Listing("merge_requests", "return", TitlesOf(gh_repo.pulls), gl_project.mergerequests)

\* GitHub refuses a pull request whose head or base branch it does not have
NeverBranches(mr) == FALSE
BranchesExist(mr) == {mr.source_branch, mr.target_branch} \subseteq gh_branches

\* one iteration of: for mr in gl_project.mergerequests.list(get_all=True)
\* the inner try/except turns a failed create_pull or pr.edit into continue
PullStep ==
    /\ pc = "merge_requests"
    /\ i >= 1
    /\ LET mr == gl_project.mergerequests[i]
           args == [title |-> mr.title,
                    body |-> <<OrEmpty(mr.description), "Migrated from GitLab MR #", mr.iid>>,
                    head |-> mr.source_branch,
                    base |-> mr.target_branch]
           made(st, ed) == args @@ [state |-> st, by |-> run, from |-> i, edit |-> ed]
           created == Append(gh_repo.pulls, made("open", "none"))
           create(ok) == Call("create", "pulls", mr.title, ok, args)
           edit(ok) == Call("edit", "pulls", mr.title, ok,
                            [state |-> "closed", target |-> EditTarget(created)])
       IN /\ IF InList(mr.title, existing)
             THEN UNCHANGED <<gh_repo, calls, failures>>
             ELSE \/ /\ BranchesExist(mr)
                     /\ ~PullNeedsClose(mr.state)
                     /\ gh_repo' = [gh_repo EXCEPT !.pulls = created]
                     /\ calls' = Append(calls, create(TRUE))
                     /\ UNCHANGED failures
                  \/ /\ BranchesExist(mr)
                     /\ PullNeedsClose(mr.state)
                     /\ gh_repo' = [gh_repo EXCEPT !.pulls =
                                         Edited(created, EditTarget(created), TRUE)]
                     /\ calls' = calls \o <<create(TRUE), edit(TRUE)>>
                     /\ UNCHANGED failures
                  \/ /\ BranchesExist(mr)
                     /\ PullNeedsClose(mr.state)
                     /\ MayFail
                     /\ gh_repo' = [gh_repo EXCEPT !.pulls =
                                         Edited(created, EditTarget(created), FALSE)]
                     /\ calls' = calls \o <<create(TRUE), edit(FALSE)>>
                     /\ failures' = failures + 1
                  \/ /\ ~BranchesExist(mr)
                     /\ calls' = Append(calls, create(FALSE))
                     /\ UNCHANGED <<gh_repo, failures>>
                  \/ /\ BranchesExist(mr)
                     /\ MayFail
                     /\ calls' = Append(calls, create(FALSE))
                     /\ failures' = failures + 1
                     /\ UNCHANGED gh_repo
          /\ LoopNext("merge_requests", "return", gl_project.mergerequests)
    /\ UNCHANGED <<variant, gl_project, gh_branches, run, clean>>
    /\ UNCHANGED <<ovars, lvars, rvars>>

\* the tool is run again on the same source and destination
Rerun ==
    /\ pc \in {"return", "raised"}
    /\ run = "first"
    /\ run' = "second"
    /\ clean' = \A k \in 1..Len(calls) : calls[k].ok
    /\ pc' = "labels"
    /\ i' = 0
    /\ existing' = <<>>
    /\ summary' = NoSummary
    /\ calls' = <<>>
    /\ UNCHANGED <<variant, gl_project, gh_repo, gh_branches, failures>>
    /\ UNCHANGED <<ovars, lvars, rvars>>

\* main is not running
IdleMain ==
    /\ mappings = <<>>
    /\ force = FALSE
    /\ m = 1
    /\ opc = "idle"
    /\ target = <<>>
    /\ gh_repos = {}
    /\ handle = <<>>
    /\ attempts = <<>>
    /\ tmp_dir = FALSE
    /\ git_calls = <<>>
    /\ raised = FALSE
    /\ summary_file = <<>>
    /\ src_failed = {}
    /\ faults = 0

Init ==
    /\ IdleLedger
    /\ IdleRefs
    /\ IdleMain
    /\ variant \in {"metadata", "script"}
    /\ gl_project \in Projects(MaxSrc)
    /\ gh_repo \in Repos
    /\ gh_branches \in {{}, {"main", "feat"}}
    /\ pc = "labels"
    /\ i = 0
    /\ existing = <<>>
    /\ summary = NoSummary
    /\ run = "first"
    /\ calls = <<>>
    /\ failures = 0
    /\ clean = TRUE

Next ==
    \/ ListLabels
    \/ LabelStep
    \/ ListMilestones
    \/ MilestoneStep
    \/ ListIssues
    \/ IssueStep
    \/ ListPulls
    \/ PullStep
    \/ Rerun

Spec == Init /\ [][Next]_vars

\* migrate_metadata of metadata.py run before and again after the code
\* transfer: the first run finds some or none of the branches in the
\* destination, the transfer pushes all of them, the second run reads the
\* unchanged source; the source has merge requests and at most one entity of
\* another kind
LaterHeads == {"feat", "dev"}
LaterMergeRequest ==
    [title : Names, state : {"opened", "closed", "merged"}, description : {None},
     source_branch : LaterHeads, target_branch : {"main"}, iid : {1}]
LaterProjects(n) ==
    UNION {[labels : UniqueNames(SrcLabel, t[1]),
            milestones : UniqueTitles(SrcMilestone, t[2]),
            issues : [1..t[3] -> SrcIssue],
            mergerequests : [1..t[4] -> LaterMergeRequest]] :
           t \in {u \in [1..4 -> 0..n] : /\ u[1] + u[2] + u[3] + u[4] <= n
                                        /\ u[1] + u[2] + u[3] <= 1
                                        /\ u[4] >= 1}}
BranchRef == [main |-> "refs/heads/main", feat |-> "refs/heads/feat", dev |-> "refs/heads/dev"]
PushedBranches == {"main"} \cup LaterHeads

\* migrate_code pushes the branches, then migrate_metadata is called again
RerunAfterTransfer ==
    /\ pc \in {"return", "raised"}
    /\ run = "first"
    /\ run' = "second"
    /\ clean' = \A k \in 1..Len(calls) : calls[k].ok
    /\ pc' = "labels"
    /\ i' = 0
    /\ existing' = <<>>
    /\ summary' = NoSummary
    /\ calls' = <<>>
    /\ refs_before' = [n \in {BranchRef[b] : b \in gh_branches} |-> 1]
    /\ gh_branches' = PushedBranches
    /\ UNCHANGED <<variant, gl_project, gh_repo, failures>>
    /\ UNCHANGED <<ovars, lvars, gl_refs, local_refs, gh_refs>>

InitLater ==
    /\ IdleLedger
    /\ IdleRefs
    /\ IdleMain
    /\ variant = "metadata"
    /\ gl_project \in LaterProjects(MaxSrc)
    /\ gh_repo \in {EmptyRepo, OldRepo("open")}
    /\ gh_branches \in {{}, {"main"}, {"main", "dev"}}
    /\ pc = "labels"
    /\ i = 0
    /\ existing = <<>>
    /\ summary = NoSummary
    /\ run = "first"
    /\ calls = <<>>
    /\ failures = 0
    /\ clean = TRUE

NextLater ==
    \/ ListLabels
    \/ LabelStep
    \/ ListMilestones
    \/ MilestoneStep
    \/ ListIssues
    \/ IssueStep
    \/ ListPulls
    \/ PullStep
    \/ RerunAfterTransfer

SpecLater == InitLater /\ [][NextLater]_vars

\* the label group alone, on one source label of any colour and description
Colors == UNION {[1..k -> ColorChars] : k \in 0..MaxColorLen}

InitLabels ==
    /\ IdleLedger
    /\ IdleRefs
    /\ IdleMain
    /\ variant \in {"metadata", "script"}
    /\ \E n \in Names, c \in Colors, d \in Descriptions :
          gl_project = [labels |-> <<[name |-> n, color |-> c, description |-> d]>>,
                        milestones |-> <<>>, issues |-> <<>>, mergerequests |-> <<>>]
    /\ gh_repo \in Repos
    /\ gh_branches = {}
    /\ pc = "labels"
    /\ i = 0
    /\ existing = <<>>
    /\ summary = NoSummary
    /\ run = "first"
    /\ calls = <<>>
    /\ failures = 0
    /\ clean = TRUE

NextLabels ==
    \/ ListLabels
    \/ LabelStep

SpecLabels == InitLabels /\ [][NextLabels]_vars

\* ------------------------------------------------- repomigration.py main

\* a line of the mapping file is a sequence of tokens; "::" and "/" are the
\* delimiters main splits at
WellFormed1 == <<"p1", "::", "o", "/", "r1">>
WellFormed2 == <<"p2", "::", "o", "/", "r2">>
FileLines ==
    {<<>>,                                         \* blank line
     WellFormed1, WellFormed2,
     <<"p1">>,                                     \* no "::"
     <<"p1", "::", "o">>,                          \* no "/" in the target
     <<"p1", "::", "o", "/", "r1", "/", "x">>,     \* two "/" in the target
     <<"p1", "::", "o", "/", "r1", "::", "x">>}    \* two "::"

\* load_repositories_from_file: blank lines are dropped
RECURSIVE load_repositories_from_file(_)
load_repositories_from_file(file) ==
    IF file = <<>> THEN <<>>
    ELSE IF Head(file) = <<>> THEN load_repositories_from_file(Tail(file))
         ELSE <<Head(file)>> \o load_repositories_from_file(Tail(file))

\* str.split(sep)
RECURSIVE Split(_, _)
Split(line, sep) ==
    IF \A k \in 1..Len(line) : line[k] # sep
    THEN <<line>>
    ELSE LET k == CHOOSE j \in 1..Len(line) :
                      line[j] = sep /\ \A h \in 1..(j - 1) : line[h] # sep
         IN <<SubSeq(line, 1, k - 1)>> \o Split(SubSeq(line, k + 1, Len(line)), sep)

Contains(line, sep) == \E k \in 1..Len(line) : line[k] = sep

Header == <<"GitLab Repo", "GitHub Repo", "Migration Status">>

\* write_migration_summary: the header goes first into a file that does not exist
write_migration_summary(file, gitlab_repo, github_repo, status) ==
    (IF file = <<>> THEN <<Header>> ELSE file) \o <<<<gitlab_repo, github_repo, status>>>>

MayFault == faults < MaxFaults

Personal(name) == <<"me", "/">> \o name

Attempt(call, result) == [call |-> call, result |-> result]

\* for mapping in mappings: ... up to log_and_print("Processing ...")
NextMapping ==
    /\ opc = "for"
    /\ IF m > Len(mappings)
       THEN /\ opc' = "done"
            /\ UNCHANGED <<m, target>>
       ELSE IF ~Contains(mappings[m], "::")
       THEN /\ m' = m + 1                          \* Invalid mapping format: continue
            /\ UNCHANGED <<opc, target>>
       ELSE IF Len(Split(mappings[m], "::")) # 2
               \/ Len(Split(Split(mappings[m], "::")[2], "/")) # 2
       THEN /\ opc' = "crashed"                    \* ValueError at the unpacking
            /\ UNCHANGED <<m, target>>
       ELSE /\ target' = Split(mappings[m], "::")
            /\ opc' = "projects.get"
            /\ UNCHANGED m
    /\ attempts' = <<>>
    /\ handle' = <<>>
    /\ git_calls' = <<>>
    /\ UNCHANGED <<mappings, force, gh_repos, tmp_dir, raised, summary_file,
                   src_failed, faults>>
    /\ UNCHANGED <<mvars, lvars, rvars>>

\* except Exception: ...; continue -- the loop goes to the next mapping
ResolveAnyway == "get_repo"
AfterProjectsGetFailed == "for"

\* gl_project = gl.projects.get(gitlab_project_path), except Exception: ledger, continue
GetProject ==
    /\ opc = "projects.get"
    /\ \/ /\ opc' = "get_repo"
          /\ UNCHANGED <<m, summary_file, src_failed, faults>>
       \/ /\ MayFault
          /\ faults' = faults + 1
          /\ summary_file' =
                write_migration_summary(summary_file, target[1], target[2], "failed")
          /\ src_failed' = src_failed \cup {m}
          /\ m' = m + 1
          /\ opc' = AfterProjectsGetFailed
    /\ UNCHANGED <<mappings, force, target, gh_repos, handle, attempts, tmp_dir,
                   git_calls, raised>>
    /\ UNCHANGED <<mvars, lvars, rvars>>

\* where main goes after a resolver call: a GithubException is caught, any other
\* exception leaves main
AlwaysCreate(result) ==
    IF result \in {"ok", "not_found", "api_error"} THEN "get_organization"
    ELSE "crashed"
AfterLookup(result) ==
    IF result = "ok" THEN "migrate_code"
    ELSE IF result \in {"not_found", "api_error"} THEN "get_organization"
    ELSE "crashed"

\* gh_repo = gh.get_repo(f"{github_org}/{github_repo_name}")
GetRepo ==
    /\ opc = "get_repo"
    /\ \E result \in {"ok", "not_found", "api_error", "error"} :
          /\ result = "ok" => target[2] \in gh_repos
          /\ result = "not_found" => target[2] \notin gh_repos
          /\ result \in {"api_error", "error"} => MayFault
          /\ faults' = IF result \in {"api_error", "error"} THEN faults + 1 ELSE faults
          /\ attempts' = Append(attempts, Attempt("get_repo", result))
          /\ handle' = IF result = "ok" THEN target[2] ELSE handle
          /\ opc' = AfterLookup(result)
    /\ UNCHANGED <<mappings, force, m, target, gh_repos, tmp_dir, git_calls, raised,
                   summary_file, src_failed>>
    /\ UNCHANGED <<mvars, lvars, rvars>>

AfterOrgCreateNoFallback(result) ==
    IF result = "ok" THEN "migrate_code" ELSE "crashed"
AfterOrgCreate(result) ==
    IF result = "ok" THEN "migrate_code"
    ELSE IF result = "api_error" THEN "create_repo"
    ELSE "crashed"

\* org = gh.get_organization(github_org); gh_repo = org.create_repo(...)
\* GitHub refuses with a GithubException a name the organization already has
OrgCreateRepo ==
    /\ opc = "get_organization"
    /\ \E result \in {"ok", "api_error", "error"} :
          /\ result = "ok" => target[2] \notin gh_repos
          /\ (result # "ok" /\ target[2] \notin gh_repos) => MayFault
          /\ result = "error" => MayFault
          /\ faults' = IF result = "error" \/ (result # "ok" /\ target[2] \notin gh_repos)
                       THEN faults + 1 ELSE faults
          /\ attempts' = Append(attempts, Attempt("org.create_repo", result))
          /\ gh_repos' = IF result = "ok" THEN gh_repos \cup {target[2]} ELSE gh_repos
          /\ handle' = IF result = "ok" THEN target[2] ELSE handle
          /\ opc' = AfterOrgCreate(result)
    /\ UNCHANGED <<mappings, force, m, target, tmp_dir, git_calls, raised,
                   summary_file, src_failed>>
    /\ UNCHANGED <<mvars, lvars, rvars>>

\* user = gh.get_user(); gh_repo = user.create_repo(...): inside the except
\* handler, so whatever it raises leaves main
UserCreateRepo ==
    /\ opc = "create_repo"
    /\ LET personal == Personal(Split(target[2], "/")[2])
       IN \E result \in {"ok", "api_error", "error"} :
             /\ result = "ok" => personal \notin gh_repos
             /\ (result # "ok" /\ personal \notin gh_repos) => MayFault
             /\ result = "error" => MayFault
             /\ faults' = IF result = "error" \/ (result # "ok" /\ personal \notin gh_repos)
                          THEN faults + 1 ELSE faults
             /\ attempts' = Append(attempts, Attempt("user.create_repo", result))
             /\ gh_repos' = IF result = "ok" THEN gh_repos \cup {personal} ELSE gh_repos
             /\ handle' = IF result = "ok" THEN personal ELSE handle
             /\ opc' = IF result = "ok" THEN "migrate_code" ELSE "crashed"
    /\ UNCHANGED <<mappings, force, m, target, tmp_dir, git_calls, raised,
                   summary_file, src_failed>>
    /\ UNCHANGED <<mvars, lvars, rvars>>

\* ------------------------------------------------------------ migrate_code

\* tmp_dir = tempfile.mkdtemp(prefix="repo_migration_")
Mkdtemp ==
    /\ opc = "migrate_code"
    /\ tmp_dir' = TRUE
    /\ raised' = FALSE
    /\ git_calls' = <<>>
    /\ opc' = "clone"
    /\ refs_before' = gh_refs[handle]
    /\ local_refs' = EmptyRefs
    /\ UNCHANGED <<mappings, force, m, target, gh_repos, handle, attempts,
                   summary_file, src_failed, faults>>
    /\ UNCHANGED <<mvars, lvars, gl_refs, gh_refs>>

\* subprocess.run([...], check=True): the command is run once; a non-zero exit
\* raises CalledProcessError, which goes to the finally clause
NoFinally == "write_migration_summary"
RetryClone == "clone"
AfterCalledProcessError == "finally"
GitStep(at, cmd, then, rejected, local_after, remote_after) ==
    /\ opc = at
    /\ \/ /\ ~rejected
          /\ git_calls' = Append(git_calls, [cmd |-> cmd, ok |-> TRUE])
          /\ opc' = then
          /\ local_refs' = local_after
          /\ gh_refs' = [gh_refs EXCEPT ![handle] = remote_after]
          /\ UNCHANGED <<raised, faults>>
       \/ /\ rejected \/ MayFault
          /\ faults' = IF rejected THEN faults ELSE faults + 1
          /\ git_calls' = Append(git_calls, [cmd |-> cmd, ok |-> FALSE])
          /\ raised' = TRUE
          /\ opc' = AfterCalledProcessError
          /\ UNCHANGED local_refs
          /\ \E after \in (IF rejected THEN {remote_after}
                            ELSE {gh_refs[handle], remote_after}) :
                gh_refs' = [gh_refs EXCEPT ![handle] = after]
    /\ UNCHANGED <<mappings, force, m, target, gh_repos, handle, attempts, tmp_dir,
                   summary_file, src_failed>>
    /\ UNCHANGED <<mvars, lvars, gl_refs, refs_before>>

\* if force: ... else: ...
AlwaysPushAll(f) == "push --all"
AlwaysMirror(f) == "push --mirror"
PushAfterRemote(f) == IF f THEN "push --mirror" ELSE "push --all"

\* git clone --mirror <http_url_to_repo> <tmp_dir>
Clone ==
    /\ tmp_dir
    /\ GitStep("clone", "clone --mirror", "remote add",
               FALSE, gl_refs, gh_refs[handle])

\* git remote add github <clone_url>
RemoteAdd ==
    /\ tmp_dir
    /\ GitStep("remote add", "remote add", PushAfterRemote(force),
               FALSE, local_refs, gh_refs[handle])

\* git push --mirror github
PushMirror ==
    /\ tmp_dir
    /\ GitStep("push --mirror", "push --mirror", "finally",
               FALSE, local_refs, MirrorPush(local_refs, gh_refs[handle]))

\* git push github --all
PushAll ==
    /\ tmp_dir
    /\ GitStep("push --all", "push --all", "push --tags",
               Rejects(local_refs, gh_refs[handle], Branches) # {},
               local_refs, PushRefs(local_refs, gh_refs[handle], Branches))

\* git push github --tags
PushTags ==
    /\ tmp_dir
    /\ GitStep("push --tags", "push --tags", "finally",
               Rejects(local_refs, gh_refs[handle], Tags) # {},
               local_refs, PushRefs(local_refs, gh_refs[handle], Tags))

\* finally: shutil.rmtree(tmp_dir, ignore_errors=True); then back in main:
\* status = "success", or except Exception: status = "failed"; and the ledger row
Finally ==
    /\ opc = "finally"
    /\ tmp_dir' = FALSE
    /\ local_refs' = EmptyRefs
    /\ opc' = "write_migration_summary"
    /\ UNCHANGED <<mappings, force, m, target, gh_repos, handle, attempts, git_calls,
                   raised, summary_file, src_failed, faults>>
    /\ UNCHANGED <<mvars, lvars, gl_refs, gh_refs, refs_before>>

AlwaysSuccess(exc) == "success"
StatusOf(exc) == IF exc THEN "failed" ELSE "success"

WriteSummary ==
    /\ opc = "write_migration_summary"
    /\ summary_file' =
          write_migration_summary(summary_file, target[1], target[2], StatusOf(raised))
    /\ m' = m + 1
    /\ opc' = "for"
    /\ UNCHANGED <<mappings, force, target, gh_repos, handle, attempts, tmp_dir,
                   git_calls, raised, src_failed, faults>>
    /\ UNCHANGED <<mvars, lvars, rvars>>

\* migrate_metadata is not running
IdleMetadata ==
    /\ variant = "metadata"
    /\ gl_project = [labels |-> <<>>, milestones |-> <<>>, issues |-> <<>>,
                     mergerequests |-> <<>>]
    /\ gh_repo = EmptyRepo
    /\ gh_branches = {}
    /\ pc = "idle"
    /\ i = 0
    /\ existing = <<>>
    /\ summary = NoSummary
    /\ run = "first"
    /\ calls = <<>>
    /\ failures = 0
    /\ clean = TRUE

MappingFiles == UNION {[1..k -> FileLines] : k \in 0..MaxMappings}

InitMain ==
    /\ IdleLedger
    /\ gl_refs = [n \in {"refs/heads/main"} |-> 1]
    /\ local_refs = EmptyRefs
    /\ gh_refs = [n \in RepoNames |-> EmptyRefs]
    /\ refs_before = EmptyRefs
    /\ IdleMetadata
    /\ mappings \in {load_repositories_from_file(f) : f \in MappingFiles}
    /\ force \in BOOLEAN
    /\ m = 1
    /\ opc = "for"
    /\ target = <<>>
    /\ gh_repos \in {{}, {<<"o", "/", "r1">>}}
    /\ handle = <<>>
    /\ attempts = <<>>
    /\ tmp_dir = FALSE
    /\ git_calls = <<>>
    /\ raised = FALSE
    /\ summary_file = <<>>
    /\ src_failed = {}
    /\ faults = 0

NextMain ==
    \/ NextMapping
    \/ GetProject
    \/ GetRepo
    \/ OrgCreateRepo
    \/ UserCreateRepo
    \/ Mkdtemp
    \/ Clone
    \/ RemoteAdd
    \/ PushMirror
    \/ PushAll
    \/ PushTags
    \/ Finally
    \/ WriteSummary

SpecMain == InitMain /\ [][NextMain]_vars

\* one mapping whose repository main has resolved, over every source and
\* destination ref set: the transfer, its ledger row and the end of the loop
SourceRefs ==
    UNION {[S -> Commits] : S \in {T \in SUBSET RefNames : "refs/heads/main" \in T}}
DestinationRefs == UNION {[S -> Commits] : S \in SUBSET RefNames}

InitTransfer ==
    /\ IdleMetadata
    /\ IdleLedger
    /\ mappings = <<WellFormed1>>
    /\ force \in BOOLEAN
    /\ m = 1
    /\ opc = "migrate_code"
    /\ target = Split(WellFormed1, "::")
    /\ gh_repos = {<<"o", "/", "r1">>}
    /\ handle = <<"o", "/", "r1">>
    /\ attempts = <<Attempt("get_repo", "ok")>>
    /\ tmp_dir = FALSE
    /\ git_calls = <<>>
    /\ raised = FALSE
    /\ summary_file = <<>>
    /\ src_failed = {}
    /\ faults = 0
    /\ gl_refs \in SourceRefs
    /\ local_refs = EmptyRefs
    /\ \E d \in DestinationRefs :
          gh_refs = [n \in RepoNames |-> IF n = <<"o", "/", "r1">> THEN d ELSE EmptyRefs]
    /\ refs_before = EmptyRefs

NextTransfer ==
    \/ Mkdtemp
    \/ Clone
    \/ RemoteAdd
    \/ PushMirror
    \/ PushAll
    \/ PushTags
    \/ Finally
    \/ WriteSummary
    \/ NextMapping

SpecTransfer == InitTransfer /\ [][NextTransfer]_vars

\* ------------------------------------------------------ metadata.py main

\* args.github_org
github_org == "o"

Projects2 == {<<"g", "/", "p1">>, <<"p2">>}
ProjectFiles == UNION {[1..k -> Projects2 \cup {<<>>}] : k \in 0..MaxMappings}

\* repo_name = project_name.split("/")[-1]
RepoName(project_name) ==
    Split(project_name, "/")[Len(Split(project_name, "/"))]
OrgRepo(project_name) == <<github_org, "/">> \o RepoName(project_name)

\* for project_name in projects: log_and_print("Starting migration: ...")
MetaNextProject ==
    /\ opc = "meta for"
    /\ IF m > Len(mappings)
       THEN /\ opc' = "meta done"
            /\ UNCHANGED target
       ELSE /\ target' = <<mappings[m], OrgRepo(mappings[m])>>
            /\ opc' = "meta projects.get"
    /\ attempts' = <<>>
    /\ handle' = <<>>
    /\ UNCHANGED <<mappings, force, m, gh_repos, tmp_dir, git_calls, raised,
                   summary_file, src_failed, faults>>
    /\ UNCHANGED <<mvars, lvars, rvars>>

\* gl_project = gl.projects.get(project_name), except Exception: continue
MetaGetProject ==
    /\ opc = "meta projects.get"
    /\ \/ /\ opc' = "meta get_repo"
          /\ UNCHANGED <<m, src_failed, faults>>
       \/ /\ MayFault
          /\ faults' = faults + 1
          /\ src_failed' = src_failed \cup {m}
          /\ m' = m + 1
          /\ opc' = "meta for"
    /\ UNCHANGED <<mappings, force, target, gh_repos, handle, attempts, tmp_dir,
                   git_calls, raised, summary_file>>
    /\ UNCHANGED <<mvars, lvars, rvars>>

\* gh_repo = gh.get_repo(f"{args.github_org}/{repo_name}"); except GithubException
\* goes straight to the personal account
MetaGetRepo ==
    /\ opc = "meta get_repo"
    /\ \E result \in {"ok", "not_found", "api_error", "error"} :
          /\ result = "ok" => target[2] \in gh_repos
          /\ result = "not_found" => target[2] \notin gh_repos
          /\ result \in {"api_error", "error"} => MayFault
          /\ faults' = IF result \in {"api_error", "error"} THEN faults + 1 ELSE faults
          /\ attempts' = Append(attempts, Attempt("get_repo", result))
          /\ handle' = IF result = "ok" THEN target[2] ELSE handle
          /\ opc' = IF result = "ok" THEN "meta migrate_metadata"
                    ELSE IF result = "error" THEN "meta crashed"
                    ELSE "meta create_repo"
    /\ UNCHANGED <<mappings, force, m, target, gh_repos, tmp_dir, git_calls, raised,
                   summary_file, src_failed>>
    /\ UNCHANGED <<mvars, lvars, rvars>>

\* user = gh.get_user(); gh_repo = user.create_repo(repo_name, private=True)
MetaUserCreateRepo ==
    /\ opc = "meta create_repo"
    /\ LET personal == Personal(RepoName(target[1]))
       IN \E result \in {"ok", "api_error", "error"} :
             /\ result = "ok" => personal \notin gh_repos
             /\ (result # "ok" /\ personal \notin gh_repos) => MayFault
             /\ result = "error" => MayFault
             /\ faults' = IF result = "error" \/ (result # "ok" /\ personal \notin gh_repos)
                          THEN faults + 1 ELSE faults
             /\ attempts' = Append(attempts, Attempt("user.create_repo", result))
             /\ gh_repos' = IF result = "ok" THEN gh_repos \cup {personal} ELSE gh_repos
             /\ handle' = IF result = "ok" THEN personal ELSE handle
             /\ opc' = IF result = "ok" THEN "meta migrate_metadata" ELSE "meta crashed"
    /\ UNCHANGED <<mappings, force, m, target, tmp_dir, git_calls, raised,
                   summary_file, src_failed>>
    /\ UNCHANGED <<mvars, lvars, rvars>>

\* migrate_metadata(gl_project, gh_repo): its groups are the actions of Spec; it
\* catches what its calls raise, so main goes on to the next project
MetaMigrateMetadata ==
    /\ opc = "meta migrate_metadata"
    /\ m' = m + 1
    /\ opc' = "meta for"
    /\ UNCHANGED <<mappings, force, target, gh_repos, handle, attempts, tmp_dir,
                   git_calls, raised, summary_file, src_failed, faults>>
    /\ UNCHANGED <<mvars, lvars, rvars>>

InitMeta ==
    /\ IdleLedger
    /\ IdleRefs
    /\ IdleMetadata
    /\ mappings \in {load_repositories_from_file(f) : f \in ProjectFiles}
    /\ force = FALSE
    /\ m = 1
    /\ opc = "meta for"
    /\ target = <<>>
    /\ gh_repos \in {{}, {<<"o", "/", "p1">>}, {<<"me", "/", "p2">>}}
    /\ handle = <<>>
    /\ attempts = <<>>
    /\ tmp_dir = FALSE
    /\ git_calls = <<>>
    /\ raised = FALSE
    /\ summary_file = <<>>
    /\ src_failed = {}
    /\ faults = 0

NextMeta ==
    \/ MetaNextProject
    \/ MetaGetProject
    \/ MetaGetRepo
    \/ MetaUserCreateRepo
    \/ MetaMigrateMetadata

SpecMeta == InitMeta /\ [][NextMeta]_vars

\* ------------------------- scripts/repo/gitlab_to_github_metadata.py main

\* the row statuses of the script variant
ScriptStatusOf(exc) == IF exc THEN "FAILED" ELSE "SUCCESS"

\* a ledger that an earlier run of the script left at migration_summary.csv
OldLedger == <<Header, <<<<"p0">>, <<"o", "/", "r0">>, ScriptStatusOf(FALSE)>>>>

\* gl_project = gl.projects.get(args.gitlab_project): nothing catches what it raises
ScriptGetProject ==
    /\ opc = "script projects.get"
    /\ \/ /\ opc' = "script get_repo"
          /\ UNCHANGED faults
       \/ /\ MayFault
          /\ faults' = faults + 1
          /\ opc' = "crashed"
    /\ UNCHANGED <<mappings, force, m, target, gh_repos, handle, attempts, tmp_dir,
                   git_calls, raised, summary_file, src_failed>>
    /\ UNCHANGED <<mvars, lvars, rvars>>

\* try: gh_repo = gh.get_repo(...)   except: (a bare except catches every exception)
ScriptGetRepo ==
    /\ opc = "script get_repo"
    /\ \E result \in {"ok", "not_found", "api_error", "error"} :
          /\ result = "ok" => target[2] \in gh_repos
          /\ result = "not_found" => target[2] \notin gh_repos
          /\ result \in {"api_error", "error"} => MayFault
          /\ faults' = IF result \in {"api_error", "error"} THEN faults + 1 ELSE faults
          /\ attempts' = Append(attempts, Attempt("get_repo", result))
          /\ handle' = IF result = "ok" THEN target[2] ELSE handle
          /\ opc' = IF result = "ok" THEN "script try" ELSE "script get_organization"
    /\ UNCHANGED <<mappings, force, m, target, gh_repos, tmp_dir, git_calls, raised,
                   summary_file, src_failed>>
    /\ UNCHANGED <<mvars, lvars, rvars>>

\* org = gh.get_organization(args.github_org); gh_repo = org.create_repo(...):
\* inside the except handler, so whatever it raises leaves main
ScriptOrgCreateRepo ==
    /\ opc = "script get_organization"
    /\ \E result \in {"ok", "api_error", "error"} :
          /\ result = "ok" => target[2] \notin gh_repos
          /\ (result # "ok" /\ target[2] \notin gh_repos) => MayFault
          /\ result = "error" => MayFault
          /\ faults' = IF result = "error" \/ (result # "ok" /\ target[2] \notin gh_repos)
                       THEN faults + 1 ELSE faults
          /\ attempts' = Append(attempts, Attempt("org.create_repo", result))
          /\ gh_repos' = IF result = "ok" THEN gh_repos \cup {target[2]} ELSE gh_repos
          /\ handle' = IF result = "ok" THEN target[2] ELSE handle
          /\ opc' = IF result = "ok" THEN "script try" ELSE "crashed"
    /\ UNCHANGED <<mappings, force, m, target, tmp_dir, git_calls, raised,
                   summary_file, src_failed>>
    /\ UNCHANGED <<mvars, lvars, rvars>>

\* try: migrate_metadata(gl_project, gh_repo): the call enters the label group
ScriptCallMetadata ==
    /\ opc = "script try"
    /\ pc = "idle"
    /\ pc' = "labels"
    /\ opc' = "script migrate_metadata"
    /\ UNCHANGED <<variant, gl_project, gh_repo, gh_branches, i, existing, summary,
                   run, calls, failures, clean>>
    /\ UNCHANGED <<mappings, force, m, target, gh_repos, handle, attempts, tmp_dir,
                   git_calls, raised, summary_file, src_failed, faults>>
    /\ UNCHANGED <<lvars, rvars>>

\* migrate_metadata returned: write_migration_summary(..., "SUCCESS");
\* except Exception: write_migration_summary(..., "FAILED")
ScriptWriteSummary ==
    /\ opc = "script migrate_metadata"
    /\ pc \in {"return", "raised"}
    /\ summary_file' = write_migration_summary(summary_file, target[1], target[2],
                                               ScriptStatusOf(pc = "raised"))
    /\ opc' = "script done"
    /\ UNCHANGED <<mappings, force, m, target, gh_repos, handle, attempts, tmp_dir,
                   git_calls, raised, src_failed, faults>>
    /\ UNCHANGED <<mvars, lvars, rvars>>

InitScript ==
    /\ IdleLedger
    /\ IdleRefs
    /\ variant = "script"
    /\ gl_project \in Projects(MaxSrc)
    /\ gh_repos \in {{}, {<<"o", "/", "r1">>}}
    /\ gh_repo \in (IF gh_repos = {} THEN {EmptyRepo} ELSE Repos)
    /\ gh_branches \in (IF gh_repos = {} THEN {{}} ELSE {{}, {"main", "feat"}})
    /\ pc = "idle"
    /\ i = 0
    /\ existing = <<>>
    /\ summary = NoSummary
    /\ run = "first"
    /\ calls = <<>>
    /\ failures = 0
    /\ clean = TRUE
    /\ mappings = <<>>
    /\ force = FALSE
    /\ m = 1
    /\ opc = "script projects.get"
    /\ target = <<<<"p1">>, <<"o", "/", "r1">>>>
    /\ handle = <<>>
    /\ attempts = <<>>
    /\ tmp_dir = FALSE
    /\ git_calls = <<>>
    /\ raised = FALSE
    /\ summary_file \in {<<>>, OldLedger}
    /\ src_failed = {}
    /\ faults = 0

NextScript ==
    \/ ScriptGetProject
    \/ ScriptGetRepo
    \/ ScriptOrgCreateRepo
    \/ ScriptCallMetadata
    \/ ListLabels
    \/ LabelStep
    \/ ListMilestones
    \/ MilestoneStep
    \/ ListIssues
    \/ IssueStep
    \/ ListPulls
    \/ PullStep
    \/ ScriptWriteSummary

SpecScript == InitScript /\ [][NextScript]_vars

\* ------------------------------------------------ write_migration_summary

\* what the tool passes as a row
LedgerRows == {<<gl, "o/r1", st>> : gl \in {"p1", "p2"}, st \in {"success", "failed"}}

\* if not file_exists: writer.writeheader()
AlwaysHeader(exists) == TRUE
NeedsHeader(exists) == ~exists

\* an invocation calls write_migration_summary(path, gitlab_repo, github_repo, status)
WriteCall(p) ==
    /\ wpc[p] = "idle"
    /\ Len(wcalls) < MaxAppends
    /\ \E row \in LedgerRows :
          /\ wargs' = [wargs EXCEPT ![p] = row]
          /\ wcalls' = Append(wcalls, row)
    /\ overlap' = (overlap \/ \E q \in Invocations \ {p} : wpc[q] # "idle")
    /\ wpc' = [wpc EXCEPT ![p] = "isfile"]
    /\ UNCHANGED <<ledger, file_exists, csvfile>>
    /\ UNCHANGED <<mvars, ovars, rvars>>

\* file_exists = os.path.isfile(path)
IsFile(p) ==
    /\ wpc[p] = "isfile"
    /\ file_exists' = [file_exists EXCEPT ![p] = ledger.exists]
    /\ wpc' = [wpc EXCEPT ![p] = "open"]
    /\ UNCHANGED <<ledger, wargs, csvfile, wcalls, overlap>>
    /\ UNCHANGED <<mvars, ovars, rvars>>

\* open(path, "a", newline=""): append mode makes the file when it is missing
Open(p) ==
    /\ wpc[p] = "open"
    /\ ledger' = [ledger EXCEPT !.exists = TRUE]
    /\ csvfile' = [csvfile EXCEPT ![p] = <<>>]
    /\ wpc' = [wpc EXCEPT ![p] = "writeheader"]
    /\ UNCHANGED <<wargs, file_exists, wcalls, overlap>>
    /\ UNCHANGED <<mvars, ovars, rvars>>

\* if not file_exists: writer.writeheader()   (into the buffer of csvfile)
WriteHeader(p) ==
    /\ wpc[p] = "writeheader"
    /\ csvfile' = [csvfile EXCEPT ![p] =
                      IF NeedsHeader(file_exists[p]) THEN Append(@, Header) ELSE @]
    /\ wpc' = [wpc EXCEPT ![p] = "writerow"]
    /\ UNCHANGED <<ledger, wargs, file_exists, wcalls, overlap>>
    /\ UNCHANGED <<mvars, ovars, rvars>>

\* writer.writerow({...})   (into the buffer of csvfile)
WriteRow(p) ==
    /\ wpc[p] = "writerow"
    /\ csvfile' = [csvfile EXCEPT ![p] = Append(@, wargs[p])]
    /\ wpc' = [wpc EXCEPT ![p] = "close"]
    /\ UNCHANGED <<ledger, wargs, file_exists, wcalls, overlap>>
    /\ UNCHANGED <<mvars, ovars, rvars>>

\* end of the with block: the buffer is flushed as one write at the end of the
\* file (append mode) and the file is closed
Close(p) ==
    /\ wpc[p] = "close"
    /\ ledger' = [ledger EXCEPT !.lines = @ \o csvfile[p]]
    /\ csvfile' = [csvfile EXCEPT ![p] = <<>>]
    /\ wpc' = [wpc EXCEPT ![p] = "idle"]
    /\ UNCHANGED <<wargs, file_exists, wcalls, overlap>>
    /\ UNCHANGED <<mvars, ovars, rvars>>

InitLedger ==
    /\ IdleMetadata
    /\ IdleMain
    /\ IdleLedger
    /\ IdleRefs

NextLedger ==
    \E p \in Invocations :
        \/ WriteCall(p)
        \/ IsFile(p)
        \/ Open(p)
        \/ WriteHeader(p)
        \/ WriteRow(p)
        \/ Close(p)

SpecLedger == InitLedger /\ [][NextLedger]_vars

\* ------------------------------------------------------------ properties

CallIdx == 1..Len(calls)
Creates == {k \in CallIdx : calls[k].op = "create"}
KeyIn(kind, e) == IF kind = "labels" THEN e.name ELSE e.title
Made(kind) == {k \in 1..Len(gh_repo[kind]) : gh_repo[kind][k].by # "other"}
Kinds == {"labels", "milestones", "issues", "pulls"}

C2_NaturalKeyDedup ==
    \A k \in Creates :
        \A e \in 1..Len(gh_repo[calls[k].kind]) :
            gh_repo[calls[k].kind][e].by # run
                => KeyIn(calls[k].kind, gh_repo[calls[k].kind][e]) # calls[k].key

C2_Witness ==
    /\ pc = "return"
    /\ Len(gl_project.issues) = 2
    /\ gl_project.issues[1].title = "a"
    /\ gl_project.issues[1].state = "opened"
    /\ gl_project.issues[2].title = "b"
    /\ Len(gh_repo.issues) = 2
    /\ gh_repo.issues[1].by = "other"
    /\ gh_repo.issues[1].state = "closed"
    /\ gh_repo.issues[2].title = "b"

\* C3 at-most-once-per-name: no two create calls of one migrate_metadata call
\* have the same kind and the same name/title
C3_AtMostOncePerName ==
    \A j, k \in Creates :
        (j # k /\ calls[j].kind = calls[k].kind) => calls[j].key # calls[k].key

\* C4 state translation: an entity made by migrate_metadata whose calls all
\* succeeded is in the destination state the table gives for its source state
MilestoneTable == {<<"active", "open">>, <<"closed", "closed">>}
IssueTable == {<<"opened", "open">>, <<"closed", "closed">>}
PullTable == {<<"opened", "open">>, <<"closed", "closed">>, <<"merged", "closed">>}

C4_StateTranslation ==
    /\ \A k \in Made("milestones") :
          <<gl_project.milestones[gh_repo.milestones[k].from].state,
            gh_repo.milestones[k].state>> \in MilestoneTable
    /\ \A k \in Made("issues") :
          gh_repo.issues[k].edit # "failed"
              => <<gl_project.issues[gh_repo.issues[k].from].state,
                   gh_repo.issues[k].state>> \in IssueTable
    /\ \A k \in Made("pulls") :
          gh_repo.pulls[k].edit # "failed"
              => <<gl_project.mergerequests[gh_repo.pulls[k].from].state,
                   gh_repo.pulls[k].state>> \in PullTable

C4_Witness ==
    /\ pc = "return"
    /\ \E k \in Made("pulls") :
          /\ gl_project.mergerequests[gh_repo.pulls[k].from].state = "merged"
          /\ gh_repo.pulls[k].state = "closed"
    /\ \E k \in Made("milestones") :
          /\ gl_project.milestones[gh_repo.milestones[k].from].state = "active"
          /\ gh_repo.milestones[k].state = "open"

\* C5 as stated: create_label gets the source colour without its leading "#" when
\* it has one and the source colour itself otherwise, and the source description
\* or "" when there is none
SourceLabel(name) ==
    CHOOSE l \in {gl_project.labels[k] : k \in 1..Len(gl_project.labels)} : l.name = name
NotHash(ch) == ch # "#"
DescriptionPassed(k) ==
    calls[k].args.description =
        (IF SourceLabel(calls[k].key).description = None
         THEN "" ELSE SourceLabel(calls[k].key).description)

C5_LeadingMarkerStripped ==
    \A k \in Creates :
        calls[k].kind = "labels" =>
            /\ calls[k].args.color =
                  (IF SourceLabel(calls[k].key).color # <<>>
                      /\ Head(SourceLabel(calls[k].key).color) = "#"
                   THEN Tail(SourceLabel(calls[k].key).color)
                   ELSE SourceLabel(calls[k].key).color)
            /\ DescriptionPassed(k)

\* C5 amended: create_label gets the source colour with every "#" removed (so
\* without its leading marker when that is its only "#"), and the source
\* description or "" when there is none
C5_EveryMarkerStripped ==
    \A k \in Creates :
        calls[k].kind = "labels" =>
            /\ calls[k].args.color = SelectSeq(SourceLabel(calls[k].key).color, NotHash)
            /\ DescriptionPassed(k)

C5_Witness ==
    /\ Creates # {}
    /\ calls[Len(calls)].ok
    /\ gl_project.labels[1].color = <<"#", "1", "F">>
    /\ calls[Len(calls)].args.color = <<"1", "F">>
    /\ gl_project.labels[1].description = None

\* ---------------------------------------------------- resolver properties

Failed(a) == a.result # "ok"
LastAttempt == attempts[Len(attempts)]
AttemptFailed(call) ==
    \E k \in 1..Len(attempts) : attempts[k].call = call /\ Failed(attempts[k])
LookupMissed == attempts # <<>> /\ attempts[1] = Attempt("get_repo", "not_found")
\* main of repomigration.py was left by an exception of a resolver call
ResolutionFailed == opc = "crashed" /\ attempts # <<>>

\* C6 as stated: after a lookup miss, a failed organization creation is followed
\* by the personal creation attempt without an error being raised, and the
\* resolution fails only when both creation attempts failed
C6_FallbackAfterAnyFailure ==
    /\ (LookupMissed /\ LastAttempt.call = "org.create_repo" /\ Failed(LastAttempt))
          => opc = "create_repo"
    /\ ResolutionFailed
          => (AttemptFailed("org.create_repo") /\ AttemptFailed("user.create_repo"))

\* C6 amended: after a lookup miss, an organization creation that fails with a
\* GithubException is followed by the personal creation attempt without an error
\* being raised; the resolution fails when both creation attempts failed, and
\* also when the lookup or the organization creation raised an exception that
\* is not a GithubException
C6_FallbackAfterGithubException ==
    /\ (LookupMissed /\ LastAttempt = Attempt("org.create_repo", "api_error"))
          => opc = "create_repo"
    /\ ResolutionFailed
          => \/ AttemptFailed("org.create_repo") /\ AttemptFailed("user.create_repo")
             \/ \E k \in 1..Len(attempts) :
                   /\ attempts[k].call \in {"get_repo", "org.create_repo"}
                   /\ attempts[k].result = "error"

C6_Witness ==
    /\ attempts = <<Attempt("get_repo", "not_found"),
                    Attempt("org.create_repo", "api_error"),
                    Attempt("user.create_repo", "ok")>>
    /\ opc = "migrate_code"
    /\ handle = Personal(<<"r1">>)

\* C7 organization before personal: no personal creation attempt is made for a
\* mapping without a failed organization creation attempt before it
C7_PersonalOnlyAfterOrg ==
    \A k \in 1..Len(attempts) :
        attempts[k].call = "user.create_repo"
            => \E j \in 1..(k - 1) :
                  attempts[j].call = "org.create_repo" /\ Failed(attempts[j])

\* C8 resolution failure is fatal to the mapping only: when lookup, organization
\* creation and personal creation have all failed, main has written the failed
\* row of the mapping and is at the next mapping
Rows == IF summary_file = <<>> THEN <<>> ELSE Tail(summary_file)

C8_ResolutionFailureLedgered ==
    (attempts # <<>> /\ LastAttempt.call = "user.create_repo" /\ Failed(LastAttempt))
        => /\ opc = "for"
           /\ Rows # <<>>
           /\ Rows[Len(Rows)] = <<target[1], target[2], "failed">>

\* C9 batch isolation on source failure: in a run over well-formed mappings in
\* which a source project could not be resolved, once main has ended every
\* mapping has its own ledger row, in input order, and the rows of the mappings
\* whose source failed say failed
IsWellFormed(line) ==
    /\ Len(Split(line, "::")) = 2
    /\ Len(Split(Split(line, "::")[2], "/")) = 2

C9_SourceFailureIsolated ==
    (/\ opc \in {"done", "crashed"}
     /\ src_failed # {}
     /\ \A k \in 1..Len(mappings) : IsWellFormed(mappings[k]))
        => /\ Len(Rows) = Len(mappings)
           /\ \A k \in 1..Len(mappings) :
                 /\ <<Rows[k][1], Rows[k][2]>> = Split(mappings[k], "::")
                 /\ k \in src_failed => Rows[k][3] = "failed"

\* ------------------------------------------------ migrate_code properties

IsPush(c) == c.cmd \in {"push --mirror", "push --all", "push --tags"}
Pushes == SelectSeq(git_calls, IsPush)
PushCmds == [k \in 1..Len(Pushes) |-> Pushes[k].cmd]
Succeeded(cmd, before) ==
    \E k \in 1..(before - 1) : git_calls[k] = [cmd |-> cmd, ok |-> TRUE]
TransferEnded == opc = "write_migration_summary"
PushAfterSetup ==
    \A k \in 1..Len(git_calls) :
        IsPush(git_calls[k])
            => Succeeded("clone --mirror", k) /\ Succeeded("remote add", k)

\* C10 as stated: a force transfer issues exactly one push, the mirror push; an
\* incremental transfer whose steps all succeed issues the all-branches push and
\* then the all-tags push; no push comes before clone and remote-add succeeded
C10_OnePushInForceMode ==
    /\ (TransferEnded /\ force) => PushCmds = <<"push --mirror">>
    /\ (TransferEnded /\ ~force /\ ~raised) => PushCmds = <<"push --all", "push --tags">>
    /\ PushAfterSetup

\* C10 amended: a force transfer whose clone and remote-add succeed issues exactly
\* one push, the mirror push, and no push otherwise; an incremental transfer
\* whose steps all succeed issues the all-branches push and then the all-tags
\* push; no push comes before clone and remote-add succeeded
C10_PushStrategy ==
    /\ (TransferEnded /\ force)
          => PushCmds = (IF Succeeded("remote add", Len(git_calls) + 1)
                         THEN <<"push --mirror">> ELSE <<>>)
    /\ (TransferEnded /\ ~force /\ ~raised) => PushCmds = <<"push --all", "push --tags">>
    /\ PushAfterSetup

C10_Witness ==
    /\ TransferEnded
    /\ force
    /\ ~raised
    /\ PushCmds = <<"push --mirror">>

\* C11 cleanup guarantee: outside migrate_code (before mkdtemp, and once it has
\* returned or raised, wherever a git command failed) the temporary workspace
\* it made does not exist
InTransfer == {"clone", "remote add", "push --mirror", "push --all", "push --tags",
               "finally"}
GitCmds == {"clone --mirror", "remote add", "push --mirror", "push --all", "push --tags"}
FailedAt(cmd) ==
    /\ git_calls # <<>>
    /\ git_calls[Len(git_calls)] = [cmd |-> cmd, ok |-> FALSE]

C11_WorkspaceRemoved ==
    /\ opc \notin InTransfer => ~tmp_dir
    /\ \A cmd \in GitCmds : (TransferEnded /\ FailedAt(cmd)) => ~tmp_dir

C11_Witness ==
    /\ TransferEnded
    /\ raised
    /\ FailedAt("push --tags")
    /\ Len(git_calls) = 4
    /\ ~tmp_dir
    /\ summary_file # <<>>

\* ------------------------------------------------------ ledger properties

AllIdle == \A p \in Invocations : wpc[p] = "idle"
Sequential == ~overlap
IsPrefix(s1, s2) == Len(s1) <= Len(s2) /\ SubSeq(s2, 1, Len(s1)) = s1
Headers == {k \in 1..Len(ledger.lines) : ledger.lines[k] = Header}

\* C12 ledger append-only: after N calls of write_migration_summary that did not
\* overlap, on a path that did not exist, the file holds the header and then
\* the N rows in call order, N + 1 lines, also when a row is repeated; and no
\* step of any call changes or removes a line that is in the file
C12_AppendOnly ==
    /\ [](Sequential /\ AllIdle =>
             IF wcalls = <<>> THEN ~ledger.exists
             ELSE /\ ledger.lines = <<Header>> \o wcalls
                  /\ Len(ledger.lines) = Len(wcalls) + 1)
    /\ [][/\ ledger.exists => ledger'.exists
          /\ IsPrefix(ledger.lines, ledger'.lines)]_vars

C12_Witness ==
    /\ Sequential
    /\ AllIdle
    /\ Len(wcalls) = 3
    /\ wcalls[1] = wcalls[2]
    /\ wcalls[3] # wcalls[2]
    /\ Len(ledger.lines) = 4

\* C13 ledger under concurrent invocations: whatever the interleaving of the
\* calls of two invocations, once they have ended the file has one header, as
\* its first line, and one row per call
C13_OneHeaderUnderInterleaving ==
    (AllIdle /\ wcalls # <<>>) =>
        /\ Headers = {1}
        /\ Len(ledger.lines) = Len(wcalls) + 1

\* --------------------------------------------------------- main properties

WellFormedMappings == SelectSeq(mappings, IsWellFormed)
MainEnded == opc \in {"done", "crashed"}

\* C14 one ledger row per mapping: when main has ended, the rows it appended
\* are one row for each well-formed mapping of the input, in input order
C14_OneRowPerMapping ==
    MainEnded =>
        /\ Len(Rows) = Len(WellFormedMappings)
        /\ \A k \in 1..Len(WellFormedMappings) :
              <<Rows[k][1], Rows[k][2]>> = Split(WellFormedMappings[k], "::")

\* C15 ledger status derivation: a row that main appends says success exactly
\* when the source project was resolved, the destination repository was
\* resolved or created and every git command of the transfer succeeded; a row
\* appended in any other case says failed
SourceResolved == m \notin src_failed'
DestinationResolved == attempts # <<>> /\ LastAttempt.result = "ok" /\ handle # <<>>
TransferSucceeded ==
    /\ git_calls # <<>>
    /\ \A k \in 1..Len(git_calls) : git_calls[k].ok
    /\ git_calls[Len(git_calls)].cmd \in {"push --mirror", "push --tags"}
LastRow(file) == file[Len(file)]

C15_StatusDerivation ==
    [][summary_file' # summary_file =>
          /\ LastRow(summary_file')[3] \in {"success", "failed"}
          /\ LastRow(summary_file')[3] = "success" <=>
                (SourceResolved /\ DestinationResolved /\ TransferSucceeded)]_vars

C15_Witness ==
    /\ Len(Rows) = 3
    /\ Rows[1][3] = "failed" /\ 1 \in src_failed
    /\ Rows[2][3] = "success"
    /\ Rows[3][3] = "failed" /\ 3 \notin src_failed

\* C17 malformed mapping lines are skipped: while the loop of main is at a
\* non-blank line that is not of the form source::org/repo, main makes no call
\* and goes on to the next line
C17_MalformedSkipped ==
    (m <= Len(mappings) /\ ~IsWellFormed(mappings[m])) =>
        /\ opc = "for"
        /\ attempts = <<>>
        /\ git_calls = <<>>

\* C18 step order within a mapping: when main appends the row of a mapping
\* after its transfer, the destination resolution, then the metadata
\* reconciliation, then the code transfer of that mapping have run
Reconciled == pc = "return"
C18_StepOrder ==
    opc = "write_migration_summary" =>
        /\ attempts # <<>>
        /\ Reconciled
        /\ git_calls # <<>>

\* C16 ledger status vocabulary: every row that an orchestrator variant
\* appends to a ledger has one of the statuses success, failed, skipped
StatusVocabulary == {"success", "failed", "skipped"}
C16_StatusVocabulary ==
    [][summary_file' # summary_file =>
          LastRow(summary_file')[3] \in StatusVocabulary]_vars

\* ------------------------------------------------- reconcile error handling

Listed(kind) == \E k \in CallIdx : calls[k].op = "list" /\ calls[k].kind = kind
Groups == {"labels", "milestones", "issues", "merge_requests"}

\* C19 group isolation: no failure leaves migrate_metadata, every group runs
\* whatever happened in the groups before it, and the summary returned has
\* completed or failed for each of the four kinds
C19_GroupIsolation ==
    /\ pc # "raised"
    /\ pc = "return" =>
          /\ \A kind \in Groups : Listed(kind)
          /\ \A kind \in Groups : summary[kind] \in {"completed", "failed"}

\* C20 per-item skip in the merge-request group: create_pull is attempted once
\* for every source merge request whose title was not listed in the
\* destination, whether or not the attempts before it failed, and after a
\* listing that succeeded the group is reported completed
MadeEarlier(e) == e.by # run
ListedPulls == TitlesOf(SelectSeq(gh_repo.pulls, MadeEarlier))
PullCreates == {k \in Creates : calls[k].kind = "pulls"}
Eligible(n) ==
    {j \in 1..n : ~InList(gl_project.mergerequests[j].title, ListedPulls)}
PullsListed == \E k \in CallIdx : calls[k] = Call("list", "merge_requests", "", TRUE, <<>>)

C20_PerItemSkip ==
    /\ (pc = "merge_requests" /\ i >= 1) =>
          Cardinality(PullCreates) = Cardinality(Eligible(i - 1))
    /\ (pc = "return" /\ PullsListed) =>
          /\ Cardinality(PullCreates) = Cardinality(Eligible(Len(gl_project.mergerequests)))
          /\ variant = "metadata" => summary.merge_requests = "completed"

C20_Witness ==
    /\ pc = "return"
    /\ variant = "metadata"
    /\ summary.merge_requests = "completed"
    /\ \E k, l \in PullCreates : k < l /\ ~calls[k].ok /\ calls[l].ok

\* ------------------------------------------------- transfer and the refs

Dst == gh_refs[handle]
Ok(cmd) == [cmd |-> cmd, ok |-> TRUE]
Bad(cmd) == [cmd |-> cmd, ok |-> FALSE]
HasSourceValue(n) == n \in DOMAIN Dst /\ n \in DOMAIN gl_refs /\ Dst[n] = gl_refs[n]
HasValueBefore(n) == n \in DOMAIN Dst /\ n \in DOMAIN refs_before /\ Dst[n] = refs_before[n]
TagPushFailedAfterBranches ==
    git_calls = <<Ok("clone --mirror"), Ok("remote add"), Ok("push --all"),
                  Bad("push --tags")>>
RowSaysFailed == opc = "for" => LastRow(summary_file)[3] = "failed"

\* C21 as stated: when the branch push succeeded and the tag push failed, the
\* destination has every source branch, has none of the source tags,
\* migrate_code has raised and the row main writes says failed
C21_NoSourceTagAfterFailedTagPush ==
    TagPushFailedAfterBranches =>
        /\ \A b \in Branches \cap DOMAIN gl_refs : HasSourceValue(b)
        /\ \A t \in Tags \cap DOMAIN gl_refs : ~HasSourceValue(t)
        /\ raised
        /\ RowSaysFailed

\* C21 amended: when the branch push succeeded and the tag push failed, the
\* destination has every source branch, keeps the tags it had before, has no
\* other tag than those and source tags (which the failed push may or may
\* not have written), migrate_code has raised and the row main writes says
\* failed
C21_BranchesKeptAfterFailedTagPush ==
    TagPushFailedAfterBranches =>
        /\ \A b \in Branches \cap DOMAIN gl_refs : HasSourceValue(b)
        /\ \A t \in Tags \cap DOMAIN refs_before : HasValueBefore(t)
        /\ \A t \in Tags \cap DOMAIN Dst : HasValueBefore(t) \/ HasSourceValue(t)
        /\ raised
        /\ RowSaysFailed

C21_Witness ==
    /\ TagPushFailedAfterBranches
    /\ opc = "for"
    /\ LastRow(summary_file)[3] = "failed"
    /\ \E b \in Branches : HasSourceValue(b) /\ ~HasValueBefore(b)
    /\ \E t \in Tags : HasSourceValue(t)

\* C22 force mode result: after a force transfer whose steps all succeeded the
\* destination has exactly the refs of the source, each at the source's
\* commit; a ref the source does not have is gone
ForceSucceeded ==
    /\ force
    /\ git_calls = <<Ok("clone --mirror"), Ok("remote add"), Ok("push --mirror")>>

C22_ForceMirrorsSource ==
    ForceSucceeded =>
        /\ DOMAIN Dst = DOMAIN gl_refs
        /\ \A n \in DOMAIN gl_refs : Dst[n] = gl_refs[n]

C22_Witness ==
    /\ ForceSucceeded
    /\ TransferEnded
    /\ \E n \in DOMAIN refs_before : n \notin DOMAIN gl_refs /\ n \notin DOMAIN Dst
    /\ \E n \in DOMAIN refs_before \cap DOMAIN gl_refs :
          refs_before[n] > gl_refs[n] /\ Dst[n] = gl_refs[n]

\* C25 strictly sequential, no retries: the git commands of one migrate_code
\* call are a prefix of clone, remote add, push (the pushes of the mode), each
\* run once; only the last one can have failed; migrate_code raises exactly
\* when one failed, returns only after all of them ran, and the workspace is
\* removed either way
ExpectedCmds(f) ==
    IF f THEN <<"clone --mirror", "remote add", "push --mirror">>
    ELSE <<"clone --mirror", "remote add", "push --all", "push --tags">>
CmdsRun == [k \in 1..Len(git_calls) |-> git_calls[k].cmd]
AStepFailed == git_calls # <<>> /\ ~git_calls[Len(git_calls)].ok

C25_SequentialNoRetry ==
    /\ IsPrefix(CmdsRun, ExpectedCmds(force))
    /\ \A k \in 1..(Len(git_calls) - 1) : git_calls[k].ok
    /\ AStepFailed => opc \notin {"clone", "remote add", "push --mirror", "push --all",
                                  "push --tags"}
    /\ opc \in {"finally", "write_migration_summary"} =>
          /\ raised <=> AStepFailed
          /\ ~raised => CmdsRun = ExpectedCmds(force)
    /\ TransferEnded => ~tmp_dir

C25_Witness ==
    /\ TransferEnded
    /\ raised
    /\ git_calls = <<Ok("clone --mirror"), Bad("remote add")>>
    /\ ~tmp_dir

\* C26 incremental mode is additive: in a transfer without force, at every
\* step and wherever it fails, every ref name the destination had when the
\* transfer began is still in the destination
C26_IncrementalKeepsRefs ==
    (~force /\ handle \in RepoNames) => DOMAIN refs_before \subseteq DOMAIN Dst

C26_Witness ==
    /\ ~force
    /\ TransferEnded
    /\ ~raised
    /\ \E n \in DOMAIN refs_before : n \notin DOMAIN gl_refs /\ n \in DOMAIN Dst
    /\ \E n \in DOMAIN Dst : n \notin DOMAIN refs_before

\* ----------------------------------------------- reconcile, entity failures

SourceOf(kind) ==
    IF kind = "labels" THEN gl_project.labels
    ELSE IF kind = "milestones" THEN gl_project.milestones
    ELSE gl_project.issues
ListedKeys(kind) ==
    IF kind = "labels" THEN NamesOf(SelectSeq(gh_repo[kind], MadeEarlier))
    ELSE TitlesOf(SelectSeq(gh_repo[kind], MadeEarlier))
NotYetThere(kind) ==
    {j \in 1..Len(SourceOf(kind)) :
        ~InList(KeyIn(kind, SourceOf(kind)[j]), ListedKeys(kind))}
CreatesOf(kind) == {k \in Creates : calls[k].kind = kind}
ListedOk(kind) == \E k \in CallIdx : calls[k] = Call("list", kind, "", TRUE, <<>>)

\* C23 continuation inside a group: when migrate_metadata of metadata.py has
\* returned, every label, milestone and issue of a listed group that was not
\* in the destination has had its create call, whether or not the create call
\* of an entity before it failed
C23_RestOfGroupContinues ==
    (variant = "metadata" /\ pc = "return") =>
        \A kind \in {"labels", "milestones", "issues"} :
            ListedOk(kind) =>
                Cardinality(CreatesOf(kind)) = Cardinality(NotYetThere(kind))

\* C24 a failed closing edit is silent: when migrate_metadata of metadata.py
\* has returned, every issue and pull request whose closing edit failed is
\* open in the destination and the summary of its group says completed
GroupOf(kind) == IF kind = "pulls" THEN "merge_requests" ELSE kind
FailedEdits == {k \in CallIdx : calls[k].op = "edit" /\ ~calls[k].ok}

C24_FailedEditIsSilent ==
    (variant = "metadata" /\ pc = "return") =>
        \A k \in FailedEdits :
            /\ gh_repo[calls[k].kind][calls[k].args.target].state = "open"
            /\ summary[GroupOf(calls[k].kind)] = "completed"

\* ------------------------------------------------- the resolver's lookup

LookupHit == attempts # <<>> /\ attempts[1] = Attempt("get_repo", "ok")
IsCreation(a) == a.call \in {"org.create_repo", "user.create_repo"}

\* C27 resolver lookup hit is mutation-free: when the lookup of the mapping
\* succeeded, the lookup is the only resolver call made for the mapping, the
\* handle is the repository at scope/name, and the lookup step itself leaves
\* the set of GitHub repositories as it was and goes on to the transfer
C27_LookupHitCreatesNothing ==
    /\ [](LookupHit => /\ attempts = <<Attempt("get_repo", "ok")>>
                       /\ handle = target[2]
                       /\ handle \in gh_repos)
    /\ [][(opc = "get_repo" /\ attempts' = <<Attempt("get_repo", "ok")>>)
              => /\ gh_repos' = gh_repos
                 /\ opc' = "migrate_code"]_vars

C27_Witness ==
    /\ LookupHit
    /\ opc = "write_migration_summary"
    /\ ~raised
    /\ handle = <<"o", "/", "r1">>
    /\ gh_repos = {<<"o", "/", "r1">>}

\* C28 creation only on not-found: a creation call is made for a mapping only
\* when the lookup of the mapping answered that no repository exists at
\* scope/name
C28_CreationOnlyOnNotFound ==
    \A k \in 1..Len(attempts) :
        IsCreation(attempts[k]) => attempts[1] = Attempt("get_repo", "not_found")

\* C30 re-running on the same mapping is safe for the resolver: the
\* organization and the personal account never both hold a repository of one
\* name, and a lookup for a name whose repository an earlier resolution
\* created under the personal account resolves to that repository without
\* creating anything
CreatedTwice(name) ==
    <<"o", "/">> \o name \in gh_repos /\ Personal(name) \in gh_repos
PersonalOf(t) == Personal(Split(t, "/")[2])

C30_RerunResolvesSame ==
    /\ [](\A name \in {<<"r1">>, <<"r2">>} : ~CreatedTwice(name))
    /\ [][(opc = "get_repo" /\ PersonalOf(target[2]) \in gh_repos)
              => /\ opc' = "migrate_code"
                 /\ handle' = PersonalOf(target[2])
                 /\ gh_repos' = gh_repos]_vars

\* ------------------------------------------------------- what reconcile edits

EditCalls == {k \in CallIdx : calls[k].op = "edit"}
EditedEntity(k) == gh_repo[calls[k].kind][calls[k].args.target]
FollowsItsCreate(k) ==
    /\ k > 1
    /\ calls[k - 1].op = "create"
    /\ calls[k - 1].ok
    /\ calls[k - 1].kind = calls[k].kind
    /\ calls[k - 1].key = calls[k].key

\* C29 reconcile never updates an entity that already existed: every edit call
\* is a closing edit on an issue or pull request, comes right after the
\* successful create call of the same entity and is made on the entity that
\* call created in this run; no step changes or removes an entity the
\* destination already has, and no step changes the source project
C29_EditsOnlyWhatItCreated ==
    /\ [](\A k \in EditCalls :
             /\ calls[k].kind \in {"issues", "pulls"}
             /\ calls[k].args.state = "closed"
             /\ FollowsItsCreate(k)
             /\ EditedEntity(k).by = run
             /\ EditedEntity(k).title = calls[k].key)
    /\ [][\A kind \in Kinds : IsPrefix(gh_repo[kind], gh_repo'[kind])]_vars
    /\ [][gl_project' = gl_project]_vars

C29_Witness ==
    /\ variant = "metadata"
    /\ pc = "return"
    /\ Len(gh_repo.issues) > 1
    /\ Len(gh_repo.pulls) > 1
    /\ gh_repo.issues[1] = OldIssue("open")
    /\ gh_repo.pulls[1] = OldPull("open")
    /\ \E k \in EditCalls :
          /\ calls[k].ok
          /\ calls[k].kind = "issues"
          /\ calls[k].args.target > 1
          /\ EditedEntity(k).state = "closed"
    /\ \E k \in EditCalls :
          /\ calls[k].ok
          /\ calls[k].kind = "pulls"
          /\ calls[k].args.target > 1
          /\ EditedEntity(k).state = "closed"

\* ------------------------------------------- the ledger row's destination

\* C31 the destination written in the ledger row of a mapping whose repository
\* was resolved is the repository the resolver returned and the code was
\* pushed to
C31_RowNamesResolvedRepo ==
    [][(opc = "write_migration_summary" /\ summary_file' # summary_file)
          => LastRow(summary_file')[2] = handle]_vars

\* ------------------------------------------ a source that is not resolved

SourceLookupFailed == src_failed' # src_failed
AtDestinationCall ==
    opc \in {"get_repo", "get_organization", "create_repo", "migrate_code", "clone",
             "remote add", "push --mirror", "push --all", "push --tags", "finally",
             "write_migration_summary", "meta get_repo", "meta create_repo",
             "meta migrate_metadata"}

\* C32 a mapping whose source project cannot be resolved causes no
\* destination-side effect: the step of the failed source lookup finds no
\* resolver or git call made for the mapping, changes no GitHub repository,
\* ref, label, milestone, issue or pull request, and goes to the next mapping
\* (main of repomigration.py with the failed row written); no lookup,
\* creation, reconcile or git call is ever at hand for a mapping whose source
\* lookup failed
C32_FailedSourceTouchesNothing ==
    /\ [][SourceLookupFailed =>
              /\ attempts = <<>> /\ attempts' = <<>>
              /\ git_calls = <<>> /\ git_calls' = <<>>
              /\ gh_repos' = gh_repos
              /\ gh_refs' = gh_refs
              /\ gh_repo' = gh_repo
              /\ calls' = calls
              /\ tmp_dir' = tmp_dir
              /\ m' = m + 1
              /\ opc = "projects.get" =>
                    /\ opc' = "for"
                    /\ Len(summary_file') > Len(summary_file)
                    /\ LastRow(summary_file') = <<target[1], target[2], "failed">>]_vars
    /\ [](AtDestinationCall => m \notin src_failed)

C32_Witness ==
    /\ opc = "for"
    /\ src_failed = {2}
    /\ m = 3
    /\ Len(summary_file) = 3
    /\ summary_file[2][3] = "success"
    /\ LastRow(summary_file) = <<<<"p2">>, <<"o", "/", "r2">>, "failed">>
    /\ gh_repos = {<<"o", "/", "r1">>}
    /\ gh_refs[<<"o", "/", "r2">>] = EmptyRefs

\* ------------------------------------- merge requests skipped for branches

MRs == gl_project.mergerequests
BranchesBefore(mr) ==
    {BranchRef[mr.source_branch], BranchRef[mr.target_branch]} \subseteq DOMAIN refs_before
PullOf(k, r) ==
    \E n \in 1..Len(gh_repo.pulls) : gh_repo.pulls[n].by = r /\ gh_repo.pulls[n].from = k
PullTitlesBy(runs) ==
    {gh_repo.pulls[n].title : n \in {x \in 1..Len(gh_repo.pulls) : gh_repo.pulls[x].by \in runs}}
SecondRunReturned == run = "second" /\ pc = "return"
PullsListedAgain ==
    \E c \in CallIdx : calls[c].op = "list" /\ calls[c].kind = "merge_requests" /\ calls[c].ok
CreateCallFor(title) ==
    \E c \in CallIdx : calls[c].op = "create" /\ calls[c].kind = "pulls" /\ calls[c].key = title

\* C33 as stated: with no call failing for another reason, a merge request
\* that the first run attempted and skipped because its branches were missing
\* has its pull request after the second run, made once the transfer has
\* pushed the branches
C33_SkippedCreatedLater ==
    (SecondRunReturned /\ failures = 0) =>
        \A k \in DOMAIN MRs :
            (~BranchesBefore(MRs[k]) /\ MRs[k].title \notin PullTitlesBy({"other"}))
                => PullOf(k, "second")

\* C33 amended: a merge request whose branches were missing in the first run
\* has no pull request from that run; the second run, made after the transfer
\* pushed the branches, issues a create call for it when no pull request of
\* its title is in the destination by then, and with no call failing it gets
\* its pull request exactly in that case
C33_SkippedRetriedUnlessTitleTaken ==
    SecondRunReturned =>
        \A k \in DOMAIN MRs :
            ~BranchesBefore(MRs[k]) =>
                /\ ~PullOf(k, "first")
                /\ (PullsListedAgain /\ MRs[k].title \notin PullTitlesBy({"other", "first"}))
                      => CreateCallFor(MRs[k].title)
                /\ failures = 0 =>
                      (PullOf(k, "second")
                          <=> MRs[k].title \notin PullTitlesBy({"other", "first"}))

C33_Witness ==
    /\ SecondRunReturned
    /\ variant = "metadata"
    /\ failures = 0
    /\ refs_before = EmptyRefs
    /\ Len(MRs) = 2
    /\ \A k \in DOMAIN MRs : PullOf(k, "second") /\ ~PullOf(k, "first")
    /\ MRs[1].title # MRs[2].title
    /\ summary.merge_requests = "completed"

====
